---- MODULE Spec2Model ----
(***************************************************************************)
(* Canteiro Seguro - gerador de APR (app.py and its rewrite pipeline.py).  *)
(* One request of main(): processar_pdfs -> gerar_embeddings ->            *)
(* executar_rag -> gerar_apr_com_ia / gerar_apr_ia -> criar_documento_* -> *)
(* download.  The variable impl says which of the two files is running.    *)
(* Python lists are 0-based; the sequences here are 1-based.               *)
(***************************************************************************)
EXTENDS Integers, Sequences, FiniteSets, TLC

VARIABLES
    impl,              \* "app" (app.py) or "pipeline" (pipeline.py)
    pc,                \* position of main() in the current request
    tarefa,            \* tarefa_usuario: the text area content, a sequence of characters
    inicio,            \* history: what the head of main did in this request: "nao",
                       \* "rejeitada" (st.error for an empty description, return),
                       \* "executou" (init_vertexai ran), "memoizado" (its cached result)
    vertex_cache,      \* st.cache_resource entry of init_vertexai: "vazio", "True", "False"
    all_chunks,        \* list of [source, content]
    idx,               \* gerar_embeddings: loop index i (1-based)
    batch_texts,       \* gerar_embeddings: current batch
    current_size,      \* gerar_embeddings: characters in the current batch
    vectors,           \* gerar_embeddings: rows collected so far
    enviados,          \* history: every batch handed to get_embeddings, in order
    embeddings_array,  \* main: result of gerar_embeddings (None, or an array of rows)
    top_k,             \* TOP_K_RAG as configured
    query_embedding,   \* executar_rag: the query vector (<<>> while there is none)
    similarities,      \* executar_rag: the score of each row
    top_indices,       \* executar_rag: row indices selected, best first
    selecionados,      \* executar_rag: the chunks selected
    rag_status,        \* history: "nao", "ok" or "erro" (the except branch was taken)
    contexto,          \* contexto_recuperado: the selected chunks that were summarised
    dados_apr,         \* "None" or the generated record
    documento,         \* "None" or the rendered document
    download,          \* the download button was shown
    exibiu_dados,      \* the generated data were displayed (st.json)
    falhas,            \* history: stages in which some step failed in this request
    estagios,          \* history: stages started in this request, in order
    resposta,          \* gerar_apr_*: response.text, a sequence of tokens
    membros,           \* gerar_apr_*: the members the token "m" of resposta stands for
    json_str,          \* gerar_apr_*: the text handed to json.loads (<<>> while none)
    dados_da_apr       \* gerar_apr_*: the dict built from the response

vars == <<impl, resposta, membros, json_str, dados_da_apr, pc, tarefa, inicio, vertex_cache, all_chunks, idx, batch_texts,
          current_size, vectors, enviados, embeddings_array, top_k, query_embedding,
          similarities, top_indices, selecionados, rag_status, contexto, dados_apr, documento,
          download, exibiu_dados, falhas, estagios>>

----------------------------------------------------------------------------
(* Program constants *)

TOP_K_RAG == 3

MAX_CHARS == 4000

MAX_BATCH_CHARS == 15000

CHUNK_OVERLAP == 50

(* Bounds of the model *)

MaxPdfs == 2

MaxChunks == 4

MaxFrags == 3

MaxK == 3

MaxTxt == 4

----------------------------------------------------------------------------
(* Small helpers *)

Min(a, b) == IF a < b THEN a ELSE b

Max(a, b) == IF a > b THEN a ELSE b

SeqsUpTo(S, m) == UNION {[1..n -> S] : n \in 0..m}

RECURSIVE Concat(_)
Concat(ss) == IF ss = <<>> THEN <<>> ELSE Head(ss) \o Concat(Tail(ss))

RECURSIVE SumLen(_)
SumLen(texts) == IF texts = <<>> THEN 0 ELSE Head(texts).len + SumLen(Tail(texts))

----------------------------------------------------------------------------
(* Task description: tarefa_usuario.strip() *)

Whitespace == {" ", "\n"}

RECURSIVE LStrip(_)
LStrip(s) == IF s # <<>> /\ Head(s) \in Whitespace THEN LStrip(Tail(s)) ELSE s

RECURSIVE RStrip(_)
RStrip(s) ==
    IF s # <<>> /\ s[Len(s)] \in Whitespace THEN RStrip(SubSeq(s, 1, Len(s) - 1)) ELSE s

\* Mutant of Strip: the description is tested as typed, "if not tarefa_usuario".
StripNothing(s) == s

Strip(s) == RStrip(LStrip(s))

Tarefas == { <<>>, <<" ", "\n">>, <<" ", "a">> }

----------------------------------------------------------------------------
(* processar_pdfs *)

\* Lengths the text splitter may return for one chunk.
RawLens == {3000, 5000}

\* Mutant of SafeLen: the chunk is kept as the splitter returned it.
SafeLenNoCap(n) == n

\* c[:MAX_CHARS] if len(c) > MAX_CHARS else c, on the length of c
SafeLen(n) == IF n > MAX_CHARS THEN MAX_CHARS ELSE n

\* What one blob of the bucket does: raises, has no text, or is split into chunks.
BlobResults ==
    {[kind |-> "erro", raw |-> <<>>], [kind |-> "semtexto", raw |-> <<>>]}
    \cup {[kind |-> "ok", raw |-> r] : r \in SeqsUpTo(RawLens, MaxChunks) \ {<<>>}}

NChunksOf(b) == Len(b.raw)

RECURSIVE TotalChunks(_)
TotalChunks(bs) == IF bs = <<>> THEN 0 ELSE NChunksOf(Head(bs)) + TotalChunks(Tail(bs))

\* The bucket listings considered: up to MaxPdfs PDFs, up to MaxChunks chunks in all.
Buckets == {bs \in SeqsUpTo(BlobResults, MaxPdfs) : TotalChunks(bs) <= MaxChunks}

\* text_splitter.split_text(pdf_text) cuts consecutive windows out of pdf_text,
\* each starting chunk_overlap characters before the end of the one before it:
\* the offset in pdf_text at which window p starts, for the window lengths raw.
RECURSIVE WindowStart(_, _)
WindowStart(raw, p) ==
    IF p = 1 THEN 0 ELSE WindowStart(raw, p - 1) + raw[p - 1] - CHUNK_OVERLAP

\* The chunks one blob contributes: safe_chunks, each tagged with its source.
\* ini and raw are history: where the splitter's window started in pdf_text and
\* how long it was before the cut to MAX_CHARS.
ChunksOfBlob(b, src) ==
    [p \in 1..Len(b.raw) |->
        [source |-> src,
         content |-> [doc |-> src, pos |-> p, len |-> SafeLen(b.raw[p])],
         ini |-> WindowStart(b.raw, p),
         raw |-> b.raw[p]]]

RECURSIVE ChunksFrom(_, _)
ChunksFrom(bs, src) ==
    IF bs = <<>> THEN <<>>
    ELSE ChunksOfBlob(Head(bs), src) \o ChunksFrom(Tail(bs), src + 1)

BlobFailed(bs) == \E j \in 1..Len(bs) : bs[j].kind = "erro"

----------------------------------------------------------------------------
(* Embedding service and gerar_embeddings *)

\* The value gerar_embeddings returns: None, or np.array(vectors).
NoneArray == [kind |-> "None", rows |-> <<>>]

Array(rows) == [kind |-> "array", rows |-> rows]

\* The vector the embedding model returns for a text: one fixed model of
\* dimension 2, a function of the text (here of the place the text comes from).
EmbedValues(content) == <<content.pos, content.doc>>

\* One row of the result: e.values, with the text that produced it as history.
EmbedRow(content) == [text |-> content, values |-> EmbedValues(content)]

\* [e.values for e in res] for one successful get_embeddings(batch_texts)
EmbedBatch(batch) == [j \in 1..Len(batch) |-> EmbedRow(batch[j])]

\* Mutant of ShouldFlush: the budget is tested before the next text is counted.
ShouldFlushLate(size, text, batch) == size > MAX_BATCH_CHARS /\ batch # <<>>

\* if current_size + len(text) > MAX_BATCH_CHARS and batch_texts
ShouldFlush(size, text, batch) == size + text.len > MAX_BATCH_CHARS /\ batch # <<>>

----------------------------------------------------------------------------
(* executar_rag: cosine similarity, argsort, top-k *)

RECURSIVE Dot(_, _)
Dot(a, b) == IF a = <<>> THEN 0 ELSE Head(a) * Head(b) + Dot(Tail(a), Tail(b))

Sgn(x) == IF x > 0 THEN 1 ELSE IF x < 0 THEN -1 ELSE 0

\* Mutant of CosSim: no special case for a zero norm (the quotient is 0/0).
CosSimNoZeroNorm(a, b) ==
    LET d == Dot(a, b)
    IN  [num |-> Sgn(d) * d * d, den |-> Dot(a, a) * Dot(b, b)]

\* Mutant of CosSim: the dot product, the division by the norms forgotten.
CosSimUnnormalized(a, b) ==
    LET d == Dot(a, b)
    IN  [num |-> Sgn(d) * d * d, den |-> 1]

\* cosine_similarity for one pair of rows of equal dimension.  The cosine
\* dot/(|a||b|) is kept exactly as sgn(dot)*dot^2 over |a|^2*|b|^2, which orders
\* pairs as the cosine does; sklearn's normalize leaves a zero row zero, so a
\* zero-norm row scores 0.
CosSim(a, b) ==
    LET d == Dot(a, b)
        na == Dot(a, a)
        nb == Dot(b, b)
    IN  IF na = 0 \/ nb = 0 THEN [num |-> 0, den |-> 1]
        ELSE [num |-> Sgn(d) * d * d, den |-> na * nb]

ScoreLess(s, t) == s.num * t.den < t.num * s.den

ScoreEq(s, t) == s.num * t.den = t.num * s.den

ScoreLE(s, t) == s.num * t.den <= t.num * s.den

\* cosine_similarity raises ValueError unless Y is a non-empty 2-D array whose
\* rows have the dimension of the query.
ShapesOk(q, rows) == rows # <<>> /\ \A j \in 1..Len(rows) : Len(rows[j].values) = Len(q)

\* cosine_similarity([query_embedding], embeddings_array)[0]
Similarities(q, rows) == [j \in 1..Len(rows) |-> CosSim(q, rows[j].values)]

Perms(n) == {p \in [1..n -> 1..n] : \A a, b \in 1..n : a # b => p[a] # p[b]}

\* similarities.argsort(): an index order that sorts the scores ascending.  The
\* default kind is not stable, so the order among equal scores is any order.
ArgsortOutcomes(sims) ==
    {p \in Perms(Len(sims)) :
        \A j \in 1..(Len(sims) - 1) : ScoreLE(sims[p[j]], sims[p[j + 1]])}

\* Python's s[start:] on a sequence
SliceFrom(s, start) ==
    LET n == Len(s)
        from == IF start < 0 THEN Max(n + start, 0) ELSE Min(start, n)
    IN  SubSeq(s, from + 1, n)

Reverse(s) == [j \in 1..Len(s) |-> s[Len(s) + 1 - j]]

\* Mutant of TopIndices: argsort()[:k][::-1], the k lowest scores.
TopIndicesLowest(order, k) == Reverse(SubSeq(order, 1, Min(k, Len(order))))

\* Mutant of TopIndices: argsort()[-k:], the reversal forgotten.
TopIndicesAscending(order, k) == SliceFrom(order, 0 - k)

\* Mutant of TopIndices: argsort()[-(k+1):][::-1], one index too many.
TopIndicesOneMore(order, k) == Reverse(SliceFrom(order, 0 - (k + 1)))

\* similarities.argsort()[-TOP_K_RAG:][::-1]
TopIndices(order, k) == Reverse(SliceFrom(order, 0 - k))

RECURSIVE KeepInRange(_, _)
KeepInRange(ix, n) ==
    IF ix = <<>> THEN <<>>
    ELSE IF Head(ix) <= n THEN <<Head(ix)>> \o KeepInRange(Tail(ix), n)
    ELSE KeepInRange(Tail(ix), n)

\* app.py: [all_chunks[i] for i in top_indices if i < len(all_chunks)]
SelecionadosApp(chunks, top) ==
    LET ix == KeepInRange(top, Len(chunks))
    IN  [j \in 1..Len(ix) |-> chunks[ix[j]]]

\* pipeline.py: [all_chunks[i]['content'] for i in top_indices]
SelecionadosPipeline(chunks, top) == [j \in 1..Len(top) |-> chunks[top[j]].content]

IndexError(chunks, top) == \E j \in 1..Len(top) : top[j] > Len(chunks)

----------------------------------------------------------------------------
(* gerar_apr_com_ia (app.py) and gerar_apr_ia (pipeline.py): the dict *)

\* The keys the post-processing looks at.
Campos == {"epis_obrigatorios", "procedimentos_emergencia", "data_elaboracao", "titulo_apr"}

\* A key the dict does not have.
Ausente == [tem |-> FALSE, tipo |-> "nada", v |-> <<>>]

\* A value of the dict: a list of items or a string (its text as one item, none
\* for ""); a value that is false in Python (null, "", [], 0) has no item.
Lista(itens) == [tem |-> TRUE, tipo |-> "list", v |-> itens]

Texto(itens) == [tem |-> TRUE, tipo |-> "str", v |-> itens]

\* bool(dados_da_apr.get(campo))
Truthy(d, campo) == d[campo].tem /\ d[campo].v # <<>>

\* The dict without any of the keys.
NoMembros == [c \in Campos |-> Ausente]

----------------------------------------------------------------------------
(* gerar_apr_*: the JSON text cut out of the response *)

\* The response text is a sequence of tokens: the two braces, whitespace, "m"
\* for the text of the members of an object ("key": value, ...), "x" for any
\* other text.
Tokens == {"{", "}", "m", "x", " "}

Positions(s, c) == {i \in 1..Len(s) : s[i] = c}

\* Mutant of Find: the highest index is taken, as rfind does.
FindFromEnd(s, c) ==
    IF Positions(s, c) = {} THEN -1
    ELSE (CHOOSE i \in Positions(s, c) : \A j \in Positions(s, c) : j <= i) - 1

\* s.find(c): the lowest 0-based index of c in s, -1 when there is none
Find(s, c) ==
    IF Positions(s, c) = {} THEN -1
    ELSE (CHOOSE i \in Positions(s, c) : \A j \in Positions(s, c) : i <= j) - 1

\* s.rfind(c): the highest 0-based index of c in s, -1 when there is none
RFind(s, c) ==
    IF Positions(s, c) = {} THEN -1
    ELSE (CHOOSE i \in Positions(s, c) : \A j \in Positions(s, c) : j <= i) - 1

\* Python's s[start:stop]: a negative index counts from the end, both are
\* clamped to the sequence, and the result is empty when stop <= start.
Slice(s, start, stop) ==
    LET n == Len(s)
        lo == IF start < 0 THEN Max(n + start, 0) ELSE Min(start, n)
        hi == IF stop < 0 THEN Max(n + stop, 0) ELSE Min(stop, n)
    IN  SubSeq(s, lo + 1, hi)

NotSpace(t) == t \notin Whitespace

\* The text is one JSON object: braces around nothing, around members, or
\* around members the last of which has an object for its value.
RECURSIVE IsObject(_)
IsObject(s) ==
    /\ Len(s) >= 2
    /\ s[1] = "{"
    /\ s[Len(s)] = "}"
    /\ \/ Len(s) = 2
       \/ /\ s[2] = "m"
          /\ Len(s) = 3 \/ IsObject(SubSeq(s, 3, Len(s) - 1))

\* json.loads(text), the members of the response being m: the dict, or ok = FALSE
\* for JSONDecodeError.  Whitespace between tokens is skipped; text that starts
\* with a brace is an object or nothing.
JsonLoads(text, m) ==
    LET t == SelectSeq(text, NotSpace)
    IN  IF IsObject(t)
        THEN [ok |-> TRUE, d |-> IF Len(t) > 2 THEN m ELSE NoMembros]
        ELSE [ok |-> FALSE, d |-> NoMembros]

----------------------------------------------------------------------------
(* gerar_apr_*: the post-processing of the dict *)

(* Task descriptions as sequences of characters *)
T_Altura == <<"A", "l", "t", "u", "r", "a">>

T_ANDAIME == <<"A", "N", "D", "A", "I", "M", "E">>

T_Confinado == <<"C", "o", "n", "f", "i", "n", "a", "d", "o">>

T_solda == <<"s", "o", "l", "d", "a">>

T_andaime_confinado == <<"a", "n", "d", "a", "i", "m", "e", " ", "c", "o", "n", "f", "i", "n", "a", "d", "o">>

TarefasApr == {T_Altura, T_ANDAIME, T_Confinado, T_solda, T_andaime_confinado}

Maiusculas == <<"A", "C", "D", "E", "F", "I", "L", "M", "N", "O", "R", "S", "T", "U">>

Minusculas == <<"a", "c", "d", "e", "f", "i", "l", "m", "n", "o", "r", "s", "t", "u">>

LowerChar(c) ==
    IF \E k \in 1..Len(Maiusculas) : Maiusculas[k] = c
    THEN Minusculas[CHOOSE k \in 1..Len(Maiusculas) : Maiusculas[k] = c]
    ELSE c

\* Mutant of Lower: the description is searched as typed.
LowerNothing(s) == s

\* tarefa_usuario.lower()
Lower(s) == [j \in 1..Len(s) |-> LowerChar(s[j])]

\* word in s
Contains(s, word) ==
    \E i \in 0..(Len(s) - Len(word)) : SubSeq(s, i + 1, i + Len(word)) = word

W_altura == <<"a", "l", "t", "u", "r", "a">>

W_andaime == <<"a", "n", "d", "a", "i", "m", "e">>

W_confinado == <<"c", "o", "n", "f", "i", "n", "a", "d", "o">>

\* "espaço confinado", the cedilla written as c
W_espaco_confinado == <<"e", "s", "p", "a", "c", "o", " ", "c", "o", "n", "f", "i", "n", "a", "d", "o">>

\* The defaults of app.py (lines 356-366); the date is data_str, the title is
\* f"APR - {tarefa_usuario[:50]}...".
EpisPadraoApp ==
    Lista(<<"Capacete de seguranca", "Botina de seguranca", "Oculos de protecao">>)

ProcedimentosPadrao == Texto(<<"Acionar brigada de emergencia ...">>)

DataPadrao == Texto(<<"data_str">>)

TituloPadrao(t) == Texto(<<"APR - ">> \o SubSeq(t, 1, Min(50, Len(t))) \o <<"...">>)

\* The defaults and additions of pipeline.py (lines 305-317), written here
\* without their accents.
EpisPadraoPipeline == Lista(<<"Capacete", "Botas", "Luvas", "Oculos">>)

EpiAltura == <<"Cinto de seguranca tipo paraquedista com talabarte duplo">>

EpisConfinado == <<"Detector de gases", "Mascara com filtro", "Cinturao de seguranca">>

\* Mutant of Garantir: the default is written over what the model supplied.
GarantirSempre(d, campo, padrao) == [d EXCEPT ![campo] = padrao]

\* if not dados_da_apr.get(campo): dados_da_apr[campo] = padrao
Garantir(d, campo, padrao) ==
    IF Truthy(d, campo) THEN d ELSE [d EXCEPT ![campo] = padrao]

\* app.py lines 356-366
PosProcessarApp(d, t) ==
    LET d1 == Garantir(d, "epis_obrigatorios", EpisPadraoApp)
        d2 == Garantir(d1, "procedimentos_emergencia", ProcedimentosPadrao)
        d3 == Garantir(d2, "data_elaboracao", DataPadrao)
    IN  Garantir(d3, "titulo_apr", TituloPadrao(t))

PedeAltura(atividade) == Contains(atividade, W_altura) \/ Contains(atividade, W_andaime)

PedeConfinado(atividade) ==
    Contains(atividade, W_confinado) \/ Contains(atividade, W_espaco_confinado)

\* dados_da_apr["epis_obrigatorios"].append(...) / += [...], on a list
Acrescentar(d, itens) ==
    [d EXCEPT !["epis_obrigatorios"] = Lista(d["epis_obrigatorios"].v \o itens)]

\* pipeline.py lines 303-319: ok = FALSE when append or += raises because the
\* value of epis_obrigatorios is not a list.
PosProcessarPipeline(d, t) ==
    LET atividade == Lower(t)
        d1 == Garantir(d, "epis_obrigatorios", EpisPadraoPipeline)
        acrescenta == PedeAltura(atividade) \/ PedeConfinado(atividade)
        d2 == IF PedeAltura(atividade) THEN Acrescentar(d1, EpiAltura) ELSE d1
        d3 == IF PedeConfinado(atividade) THEN Acrescentar(d2, EpisConfinado) ELSE d2
    IN  IF acrescenta /\ d1["epis_obrigatorios"].tipo # "list"
        THEN [ok |-> FALSE, d |-> NoMembros]
        ELSE [ok |-> TRUE, d |-> Garantir(d3, "procedimentos_emergencia", ProcedimentosPadrao)]

NoneResult(js) == [ret |-> "None", json |-> js, d |-> NoMembros]

\* app.py: "if start == -1 or end == 0: ... return None"; pipeline.py has no test.
FoundJson(im, start, end) == im = "app" => ~(start = -1 \/ end = 0)

\* gerar_apr_com_ia / gerar_apr_ia from "if not response.text" to the return, for
\* the response text texto whose members are m: what is returned ("None" or the
\* dict), and the text that was handed to json.loads.
GerarAprResult(im, t, texto, m) ==
    IF texto = <<>> THEN NoneResult(<<>>)
    ELSE LET txt == Strip(texto)
             start == Find(txt, "{")
             end == RFind(txt, "}") + 1
             js == Slice(txt, start, end)
             lido == JsonLoads(js, m)
             pos == PosProcessarPipeline(lido.d, t)
         IN  IF ~FoundJson(im, start, end) THEN NoneResult(<<>>)
             ELSE IF ~lido.ok THEN NoneResult(js)
             ELSE IF im = "app"
                  THEN [ret |-> "dados", json |-> js, d |-> PosProcessarApp(lido.d, t)]
             ELSE IF ~pos.ok THEN NoneResult(js)
             ELSE [ret |-> "dados", json |-> js, d |-> pos.d]

----------------------------------------------------------------------------
(* main(): one request, stage by stage *)

\* The request-local names of main() and of the stage functions, before a run.
LocalsCleared ==
    /\ resposta = <<>>
    /\ membros = NoMembros
    /\ json_str = <<>>
    /\ dados_da_apr = NoMembros
    /\ tarefa = <<>>
    /\ inicio = "nao"
    /\ all_chunks = <<>>
    /\ idx = 1
    /\ batch_texts = <<>>
    /\ current_size = 0
    /\ vectors = <<>>
    /\ enviados = <<>>
    /\ embeddings_array = NoneArray
    /\ query_embedding = <<>>
    /\ similarities = <<>>
    /\ top_indices = <<>>
    /\ selecionados = <<>>
    /\ rag_status = "nao"
    /\ contexto = <<>>
    /\ dados_apr = "None"
    /\ documento = "None"
    /\ download = FALSE
    /\ exibiu_dados = FALSE
    /\ falhas = {}
    /\ estagios = <<>>

\* Mutant of StageAfter: the generation is called before the retrieval.
StageAfterSwapped(etapa) ==
    CASE etapa = "inicio" -> "pdfs"
      [] etapa = "pdfs" -> "embed"
      [] etapa = "embeddings" -> "gerar"
      [] etapa = "geracao" -> "rag"
      [] etapa = "rag" -> "doc"
      [] etapa = "documento" -> "download"

\* The order of the calls in main: where main goes on when the check that
\* follows a stage lets it through (Etapa 1 .. Etapa 5, then the download).
StageAfter(etapa) ==
    CASE etapa = "inicio" -> "pdfs"
      [] etapa = "pdfs" -> "embed"
      [] etapa = "embeddings" -> "rag"
      [] etapa = "rag" -> "gerar"
      [] etapa = "geracao" -> "doc"
      [] etapa = "documento" -> "download"

Init ==
    /\ impl \in {"app", "pipeline"}
    /\ pc = "idle"
    /\ vertex_cache = "vazio"
    /\ top_k = TOP_K_RAG
    /\ LocalsCleared

\* The button is pressed: the empty-description check, then init_vertexai(), whose
\* result st.cache_resource keeps for the later requests.
MainStart ==
    /\ pc = "idle"
    /\ \E t \in Tarefas, r \in {"True", "False"} :
        /\ tarefa' = t
        /\ IF Strip(t) = <<>>
           THEN /\ inicio' = "rejeitada"
                /\ pc' = "fim"
                /\ UNCHANGED vertex_cache
           ELSE /\ inicio' = IF vertex_cache = "vazio" THEN "executou" ELSE "memoizado"
                /\ vertex_cache' = IF vertex_cache = "vazio" THEN r ELSE vertex_cache
                /\ pc' = IF vertex_cache' = "True" THEN StageAfter("inicio") ELSE "fim"
    /\ UNCHANGED <<impl, resposta, membros, json_str, dados_da_apr, all_chunks, idx, batch_texts, current_size, vectors, enviados,
                   embeddings_array, top_k, query_embedding, similarities, top_indices, selecionados,
                   rag_status, contexto, dados_apr, documento, download, exibiu_dados,
                   falhas, estagios>>

\* all_chunks = processar_pdfs(); if not all_chunks: return
ProcessarPdfs ==
    /\ pc = "pdfs"
    /\ estagios' = Append(estagios, "pdfs")
    /\ \/ \* the storage client / the listing fails: []
          /\ all_chunks' = <<>>
          /\ falhas' = falhas \cup {"pdfs"}
       \/ \E bs \in Buckets :
          /\ all_chunks' = ChunksFrom(bs, 1)
          /\ falhas' = IF BlobFailed(bs) THEN falhas \cup {"pdfs"} ELSE falhas
    /\ pc' = IF all_chunks' = <<>> THEN "fim" ELSE StageAfter("pdfs")
    /\ UNCHANGED <<impl, resposta, membros, json_str, dados_da_apr, tarefa, inicio, vertex_cache, idx, batch_texts, current_size,
                   vectors, enviados, embeddings_array, top_k, query_embedding,
                   similarities, top_indices, selecionados, rag_status, contexto, dados_apr, documento,
                   download, exibiu_dados>>

\* Mutant of MainRejectsEmbeddings: app.py tests for None only.
MainRejectsOnlyNone(im, arr) == arr.kind = "None"

\* What main() does with the value gerar_embeddings returns.
\* app.py: if embeddings_array is None or len(embeddings_array) == 0: return
\* pipeline.py: if embeddings_array is None: return
MainRejectsEmbeddings(im, arr) ==
    IF im = "app" THEN arr.kind = "None" \/ Len(arr.rows) = 0 ELSE arr.kind = "None"

StagesAfterEmbed == <<top_k, query_embedding, similarities, top_indices, selecionados, rag_status,
                      contexto, dados_apr, documento, download, exibiu_dados>>

\* One iteration of "for i, chunk in enumerate(all_chunks)".
EmbedIter ==
    /\ pc = "embed"
    /\ idx <= Len(all_chunks)
    /\ estagios' = IF idx = 1 THEN Append(estagios, "embeddings") ELSE estagios
    /\ LET text == all_chunks[idx].content IN
       IF ShouldFlush(current_size, text, batch_texts)
       THEN /\ enviados' = Append(enviados, batch_texts)
            /\ \/ \* get_embeddings returns
                  /\ vectors' = vectors \o EmbedBatch(batch_texts)
                  /\ batch_texts' = <<text>>
                  /\ current_size' = text.len
                  /\ idx' = idx + 1
                  /\ pc' = "embed"
                  /\ UNCHANGED <<falhas, embeddings_array>>
               \/ \* get_embeddings raises
                  /\ falhas' = falhas \cup {"embeddings"}
                  /\ IF impl = "app"
                     THEN \* except: st.warning; continue
                          /\ idx' = idx + 1
                          /\ pc' = "embed"
                          /\ UNCHANGED <<vectors, batch_texts, current_size,
                                         embeddings_array>>
                     ELSE \* the outer except: return None, and main returns
                          /\ embeddings_array' = NoneArray
                          /\ pc' = "fim"
                          /\ UNCHANGED <<vectors, batch_texts, current_size, idx>>
       ELSE /\ batch_texts' = Append(batch_texts, text)
            /\ current_size' = current_size + text.len
            /\ idx' = idx + 1
            /\ pc' = "embed"
            /\ UNCHANGED <<vectors, enviados, falhas, embeddings_array>>
    /\ UNCHANGED <<impl, resposta, membros, json_str, dados_da_apr, tarefa, inicio, vertex_cache, all_chunks>>
    /\ UNCHANGED StagesAfterEmbed

\* After the loop: the last batch, the return value, and main's check of it.
EmbedFim ==
    /\ pc = "embed"
    /\ idx > Len(all_chunks)
    /\ \/ /\ batch_texts = <<>>
          /\ embeddings_array' = Array(vectors)
          /\ UNCHANGED <<vectors, enviados, falhas>>
       \/ /\ batch_texts # <<>>
          /\ enviados' = Append(enviados, batch_texts)
          /\ \/ /\ vectors' = vectors \o EmbedBatch(batch_texts)
                /\ embeddings_array' = Array(vectors')
                /\ UNCHANGED falhas
             \/ /\ falhas' = falhas \cup {"embeddings"}
                /\ embeddings_array' = IF impl = "app" THEN Array(vectors) ELSE NoneArray
                /\ UNCHANGED vectors
    /\ pc' = IF MainRejectsEmbeddings(impl, embeddings_array')
             THEN "fim" ELSE StageAfter("embeddings")
    /\ UNCHANGED <<impl, resposta, membros, json_str, dados_da_apr, tarefa, inicio, vertex_cache, all_chunks, idx, batch_texts,
                   current_size, estagios>>
    /\ UNCHANGED StagesAfterEmbed

----------------------------------------------------------------------------
(* executar_rag as called by main *)

\* What the embedding service may return for the query text.
QueryVecs == { <<1, 0>>, <<1>> }

NoResult(st, sims) == [status |-> st, sims |-> sims, top |-> <<>>, sel |-> <<>>]

\* executar_rag from its first line to "selecionados = ...", for a query vector q:
\* the outcomes the argsort order allows.  status "vazio" is app.py's early
\* return "", "erro" is the except branch (st.error, return "").
RetrievalOutcomes(im, chunks, rows, q, k) ==
    IF im = "app" /\ Len(rows) = 0 THEN {NoResult("vazio", <<>>)}
    ELSE IF ~ShapesOk(q, rows) THEN {NoResult("erro", <<>>)}
    ELSE LET sims == Similarities(q, rows) IN
         { LET top == TopIndices(order, k) IN
           IF im = "app"
           THEN [status |-> "ok", sims |-> sims, top |-> top,
                 sel |-> SelecionadosApp(chunks, top)]
           ELSE IF IndexError(chunks, top) THEN NoResult("erro", sims)
           ELSE [status |-> "ok", sims |-> sims, top |-> top,
                 sel |-> SelecionadosPipeline(chunks, top)]
         : order \in ArgsortOutcomes(sims) }

RECURSIVE Resumidos(_, _, _)
\* the selected chunks whose summary call did not raise, in order
Resumidos(sel, falhou, j) ==
    IF j > Len(sel) THEN <<>>
    ELSE IF j \in falhou THEN Resumidos(sel, falhou, j + 1)
    ELSE <<sel[j]>> \o Resumidos(sel, falhou, j + 1)

\* contexto_recuperado = executar_rag(tarefa_usuario, all_chunks, embeddings_array)
\* main goes on to the generation whatever it returns.
ExecutarRag ==
    /\ pc = "rag"
    /\ estagios' = Append(estagios, "rag")
    /\ pc' = StageAfter("rag")
    /\ \E qres \in {<<>>} \cup QueryVecs :
        IF qres = <<>>
        THEN \* get_embeddings([tarefa_usuario]) raises
             /\ query_embedding' = <<>>
             /\ rag_status' = "erro"
             /\ similarities' = <<>>
             /\ top_indices' = <<>>
             /\ selecionados' = <<>>
             /\ contexto' = <<>>
             /\ falhas' = falhas \cup {"rag"}
        ELSE /\ query_embedding' = qres
             /\ \E res \in RetrievalOutcomes(impl, all_chunks, embeddings_array.rows,
                                              qres, top_k) :
                /\ similarities' = res.sims
                /\ top_indices' = res.top
                /\ selecionados' = res.sel
                /\ \E falhou \in SUBSET (1..Len(res.sel)) :
                    IF res.status = "ok" /\ falhou # {} /\ impl = "pipeline"
                    THEN \* a summary call raises: the function's except, return ""
                         /\ rag_status' = "erro"
                         /\ contexto' = <<>>
                         /\ falhas' = falhas \cup {"rag"}
                    ELSE \* app.py: except around each summary, continue
                         /\ rag_status' = res.status
                         /\ contexto' = Resumidos(res.sel, falhou, 1)
                         /\ falhas' = IF res.status = "erro" \/ falhou # {}
                                      THEN falhas \cup {"rag"} ELSE falhas
    /\ UNCHANGED <<impl, resposta, membros, json_str, dados_da_apr, tarefa, inicio, vertex_cache, all_chunks, idx, batch_texts,
                   current_size, vectors, enviados, embeddings_array, top_k, dados_apr,
                   documento, download, exibiu_dados>>

\* dados = gerar_apr_com_ia(...) / gerar_apr_ia(...); if dados is None: return
GerarApr ==
    /\ pc = "gerar"
    /\ estagios' = Append(estagios, "geracao")
    /\ \/ /\ dados_apr' = "None"
          /\ falhas' = falhas \cup {"geracao"}
          /\ pc' = "fim"
       \/ /\ dados_apr' = "dados"
          /\ pc' = StageAfter("geracao")
          /\ UNCHANGED falhas
    /\ UNCHANGED <<impl, resposta, membros, json_str, dados_da_apr, tarefa, inicio, vertex_cache, all_chunks, idx, batch_texts,
                   current_size, vectors, enviados, embeddings_array, top_k,
                   query_embedding, similarities, top_indices, selecionados, rag_status, contexto,
                   documento, download, exibiu_dados>>

\* documento = criar_documento_word(dados) / criar_documento_final(dados);
\* if documento is None: return
CriarDocumento ==
    /\ pc = "doc"
    /\ estagios' = Append(estagios, "documento")
    /\ \/ /\ documento' = "None"
          /\ falhas' = falhas \cup {"documento"}
          /\ pc' = "fim"
       \/ /\ documento' = "docx"
          /\ pc' = StageAfter("documento")
          /\ UNCHANGED falhas
    /\ UNCHANGED <<impl, resposta, membros, json_str, dados_da_apr, tarefa, inicio, vertex_cache, all_chunks, idx, batch_texts,
                   current_size, vectors, enviados, embeddings_array, top_k,
                   query_embedding, similarities, top_indices, selecionados, rag_status, contexto,
                   dados_apr, download, exibiu_dados>>

\* Save to a temporary file and show the download button (the save may raise),
\* then show the generated data.
Download ==
    /\ pc = "download"
    /\ download' \in BOOLEAN
    /\ exibiu_dados' = TRUE
    /\ pc' = "fim"
    /\ UNCHANGED <<impl, resposta, membros, json_str, dados_da_apr, tarefa, inicio, vertex_cache, all_chunks, idx, batch_texts,
                   current_size, vectors, enviados, embeddings_array, top_k,
                   query_embedding, similarities, top_indices, selecionados, rag_status, contexto,
                   dados_apr, documento, falhas, estagios>>

\* Mutant of Rerun: the fragments and their embeddings are kept for the next
\* request, next to the st.cache_resource entry.
RerunKeepsCorpus ==
    /\ pc = "fim"
    /\ pc' = "idle"
    /\ tarefa' = <<>>
    /\ inicio' = "nao"
    /\ idx' = 1
    /\ batch_texts' = <<>>
    /\ current_size' = 0
    /\ enviados' = <<>>
    /\ query_embedding' = <<>>
    /\ similarities' = <<>>
    /\ top_indices' = <<>>
    /\ selecionados' = <<>>
    /\ rag_status' = "nao"
    /\ contexto' = <<>>
    /\ dados_apr' = "None"
    /\ documento' = "None"
    /\ download' = FALSE
    /\ exibiu_dados' = FALSE
    /\ falhas' = {}
    /\ estagios' = <<>>
    /\ UNCHANGED <<impl, resposta, membros, json_str, dados_da_apr, vertex_cache, top_k, all_chunks, vectors, embeddings_array>>

\* The script is run again for the next interaction: main()'s locals are gone,
\* the st.cache_resource entry stays.
Rerun ==
    /\ pc = "fim"
    /\ pc' = "idle"
    /\ tarefa' = <<>>
    /\ inicio' = "nao"
    /\ all_chunks' = <<>>
    /\ idx' = 1
    /\ batch_texts' = <<>>
    /\ current_size' = 0
    /\ vectors' = <<>>
    /\ enviados' = <<>>
    /\ embeddings_array' = NoneArray
    /\ query_embedding' = <<>>
    /\ similarities' = <<>>
    /\ top_indices' = <<>>
    /\ selecionados' = <<>>
    /\ rag_status' = "nao"
    /\ contexto' = <<>>
    /\ dados_apr' = "None"
    /\ documento' = "None"
    /\ download' = FALSE
    /\ exibiu_dados' = FALSE
    /\ falhas' = {}
    /\ estagios' = <<>>
    /\ UNCHANGED <<impl, resposta, membros, json_str, dados_da_apr, vertex_cache, top_k>>

Next ==
    \/ MainStart
    \/ ProcessarPdfs
    \/ EmbedIter
    \/ EmbedFim
    \/ ExecutarRag
    \/ GerarApr
    \/ CriarDocumento
    \/ Download
    \/ Rerun

Spec == Init /\ [][Next]_vars

----------------------------------------------------------------------------
(* The retrieval step on its own: executar_rag's ranking for any embedding   *)
(* array, query vector and k (TOP_K_RAG as it may be configured, the values  *)
(* 0 and -1 included).                                                       *)

\* Fragment embeddings considered: unit and non-unit, collinear, opposite, zero.
VecsRag == { <<1, 0>>, <<0, 1>>, <<1, 1>>, <<0, 0>>, <<-1, 0>>, <<2, 0>> }

\* Query embeddings considered; <<1>> has another dimensionality.
QueriesRag == { <<1, 0>>, <<1, 1>>, <<0, 0>>, <<1>> }

FragContent(j) == [doc |-> 1, pos |-> j, len |-> 1]

InitRag ==
    /\ impl \in {"app", "pipeline"}
    /\ pc = "retrieve"
    /\ vertex_cache = "True"
    /\ top_k \in -1..MaxK
    /\ tarefa = <<" ", "a">>
    /\ resposta = <<>>
    /\ membros = NoMembros
    /\ json_str = <<>>
    /\ dados_da_apr = NoMembros
    /\ inicio = "executou"
    /\ idx = 1
    /\ batch_texts = <<>>
    /\ current_size = 0
    /\ vectors = <<>>
    /\ enviados = <<>>
    /\ similarities = <<>>
    /\ top_indices = <<>>
    /\ selecionados = <<>>
    /\ rag_status = "nao"
    /\ contexto = <<>>
    /\ dados_apr = "None"
    /\ documento = "None"
    /\ download = FALSE
    /\ exibiu_dados = FALSE
    /\ falhas = {}
    /\ estagios = <<>>
    /\ \E n \in 0..MaxFrags :
        /\ all_chunks = [j \in 1..n |-> [source |-> 1, content |-> FragContent(j)]]
        /\ \E vs \in [1..n -> VecsRag] :
            embeddings_array = Array([j \in 1..n |-> [text |-> FragContent(j), values |-> vs[j]]])
    /\ query_embedding \in QueriesRag

\* executar_rag up to "selecionados = ...", the query embedding being given.
Retrieve ==
    /\ pc = "retrieve"
    /\ pc' = "retrieved"
    /\ \E res \in RetrievalOutcomes(impl, all_chunks, embeddings_array.rows,
                                    query_embedding, top_k) :
        /\ similarities' = res.sims
        /\ top_indices' = res.top
        /\ selecionados' = res.sel
        /\ rag_status' = res.status
    /\ UNCHANGED <<impl, resposta, membros, json_str, dados_da_apr, tarefa, inicio, vertex_cache, all_chunks, idx, batch_texts,
                   current_size, vectors, enviados, embeddings_array, top_k,
                   query_embedding, contexto, dados_apr, documento, download,
                   exibiu_dados, falhas, estagios>>

NextRag == Retrieve

SpecRag == InitRag /\ [][NextRag]_vars

----------------------------------------------------------------------------
(* The generation step on its own: gerar_apr_com_ia / gerar_apr_ia for any   *)
(* response text of the model and any task description.                      *)

\* What the model may have written for each key.
ValoresEpis ==
    {Ausente, Lista(<<>>), Lista(<<"EPI do modelo 1", "EPI do modelo 2">>),
     Texto(<<"EPIs em texto">>)}

ValoresTexto == {Ausente, Texto(<<>>), Texto(<<"texto do modelo">>)}

MembrosTodos ==
    {m \in [Campos -> ValoresEpis \cup ValoresTexto] :
        /\ m["epis_obrigatorios"] \in ValoresEpis
        /\ \A c \in Campos \ {"epis_obrigatorios"} : m[c] \in ValoresTexto}

MembrosCompletos ==
    [c \in Campos |->
        IF c = "epis_obrigatorios" THEN Lista(<<"EPI do modelo 1", "EPI do modelo 2">>)
        ELSE Texto(<<"texto do modelo">>)]

\* Responses with the object alone, inside other text, and with an object for
\* the value of its last member.
TextosExemplo ==
    { <<"{", "m", "}">>,
      <<"x", " ", "{", " ", "m", " ", "}", " ", "x">>,
      <<" ", "{", "m", "{", "m", "}", "}", " ">> }

InitApr ==
    /\ impl \in {"app", "pipeline"}
    /\ pc = "gerar_apr"
    /\ vertex_cache = "True"
    /\ inicio = "executou"
    /\ top_k = TOP_K_RAG
    /\ all_chunks = <<>>
    /\ idx = 1
    /\ batch_texts = <<>>
    /\ current_size = 0
    /\ vectors = <<>>
    /\ enviados = <<>>
    /\ embeddings_array = NoneArray
    /\ query_embedding = <<>>
    /\ similarities = <<>>
    /\ top_indices = <<>>
    /\ selecionados = <<>>
    /\ rag_status = "nao"
    /\ contexto = <<>>
    /\ dados_apr = "None"
    /\ documento = "None"
    /\ download = FALSE
    /\ exibiu_dados = FALSE
    /\ falhas = {}
    /\ estagios = <<>>
    /\ json_str = <<>>
    /\ dados_da_apr = NoMembros
    /\ \/ \* any text, around members that are complete or missing
          /\ resposta \in SeqsUpTo(Tokens, MaxTxt)
          /\ membros \in {MembrosCompletos, NoMembros}
          /\ tarefa = T_andaime_confinado
       \/ \* any members and task description, in a text that holds an object
          /\ resposta \in TextosExemplo
          /\ membros \in MembrosTodos
          /\ tarefa \in TarefasApr

\* dados = gerar_apr_com_ia(tarefa_usuario, contexto) / gerar_apr_ia(...)
GerarAprIa ==
    /\ pc = "gerar_apr"
    /\ pc' = "gerado"
    /\ \/ \* gen.generate_content raises, there is no response: the except
          \* branch, return None
          /\ resposta' = <<>>
          /\ dados_apr' = "None"
          /\ json_str' = <<>>
          /\ dados_da_apr' = NoMembros
       \/ LET r == GerarAprResult(impl, tarefa, resposta, membros) IN
          /\ UNCHANGED resposta
          /\ dados_apr' = r.ret
          /\ json_str' = r.json
          /\ dados_da_apr' = r.d
    /\ UNCHANGED <<impl, membros, tarefa, inicio, vertex_cache, all_chunks, idx,
                   batch_texts, current_size, vectors, enviados, embeddings_array, top_k,
                   query_embedding, similarities, top_indices, selecionados, rag_status,
                   contexto, documento, download, exibiu_dados, falhas, estagios>>

NextApr == GerarAprIa

SpecApr == InitApr /\ [][NextApr]_vars

----------------------------------------------------------------------------
(* Properties of gerar_embeddings and of what main passes on *)

Contents(chunks) == [j \in 1..Len(chunks) |-> chunks[j].content]

\* gerar_embeddings has been called in this request and has returned.
EmbedReturned ==
    /\ Len(estagios) >= 2
    /\ estagios[2] = "embeddings"
    /\ ~(pc = "embed")

\* C1: once gerar_embeddings has returned, the batches handed to the embedding
\* service, concatenated in the order they were sent, are exactly the input
\* fragments: none skipped, none sent twice, order kept - failed calls included.
C1_BatchesPartitionInput ==
    EmbedReturned => Concat(enviados) = Contents(all_chunks)

\* C2: when main is about to call executar_rag, the embedding array has one row
\* per fragment of all_chunks and row i was produced by the text of all_chunks[i].
C2_RowsAlignedWithChunks ==
    pc = "rag" =>
        /\ embeddings_array.kind = "array"
        /\ Len(embeddings_array.rows) = Len(all_chunks)
        /\ \A j \in 1..Len(embeddings_array.rows) :
              j <= Len(all_chunks) =>
                  embeddings_array.rows[j].text = all_chunks[j].content

\* C7: every batch handed to the embedding service, and the batch being built,
\* holds at most MAX_BATCH_CHARS characters (each fragment holding at most
\* MAX_CHARS, which processar_pdfs ensures).
C7_BatchWithinBudget ==
    /\ \A j \in 1..Len(all_chunks) : all_chunks[j].content.len <= MAX_CHARS
    /\ \A b \in 1..Len(enviados) : SumLen(enviados[b]) <= MAX_BATCH_CHARS
    /\ SumLen(batch_texts) <= MAX_BATCH_CHARS

\* C7 witness: a batch was flushed inside the loop because the next fragment
\* would have exceeded the budget, and a later batch followed it.
C7_Witness ==
    /\ EmbedReturned
    /\ Len(enviados) >= 2
    /\ \E b \in 1..Len(enviados) : SumLen(enviados[b]) + MAX_CHARS > MAX_BATCH_CHARS

----------------------------------------------------------------------------
(* Properties of processar_pdfs *)

\* C13: every fragment processar_pdfs produces holds at most MAX_CHARS
\* characters, whatever the length of the chunk the splitter returned for it.
C13_FragmentWithinCap ==
    \A j \in 1..Len(all_chunks) : all_chunks[j].content.len <= MAX_CHARS

\* C13 witness: processar_pdfs returned a fragment that the splitter had made
\* longer than MAX_CHARS, next to one it had left alone.
C13_Witness ==
    /\ pc = "embed"
    /\ \E j \in 1..Len(all_chunks) :
          all_chunks[j].raw > MAX_CHARS /\ all_chunks[j].content.len = MAX_CHARS
    /\ \E j \in 1..Len(all_chunks) :
          all_chunks[j].raw <= MAX_CHARS /\ all_chunks[j].content.len = all_chunks[j].raw

\* processar_pdfs has just returned its fragments to main.
ChunksReturned == pc = "embed" /\ idx = 1 /\ batch_texts = <<>>

Sources == {all_chunks[j].source : j \in 1..Len(all_chunks)}

FragsOf(d) == {j \in 1..Len(all_chunks) : all_chunks[j].source = d}

\* Length of the text of source d: the end of the last window the splitter cut.
RECURSIVE MaxEnd(_)
MaxEnd(js) ==
    IF js = {} THEN 0
    ELSE LET j == CHOOSE i \in js : TRUE
         IN  Max(all_chunks[j].ini + all_chunks[j].raw, MaxEnd(js \ {j}))

TextLen(d) == MaxEnd(FragsOf(d))

\* Character position x (0-based) of the text of source d is in fragment j.
InFragment(d, x, j) ==
    /\ all_chunks[j].source = d
    /\ all_chunks[j].ini <= x
    /\ x < all_chunks[j].ini + all_chunks[j].content.len

----------------------------------------------------------------------------
(* Properties of the retrieval step *)

\* executar_rag got past "selecionados = ..." without taking its except branch.
Retrieved == pc = "retrieved" /\ rag_status = "ok"

\* The fragment text of an element of selecionados (app.py keeps the chunk,
\* pipeline.py its content).
SelContent(e) == IF impl = "app" THEN e.content ELSE e

PosOf(c) == CHOOSE i \in 1..Len(all_chunks) : all_chunks[i].content = c

\* The returned fragments, as positions in the input sequence, in output order.
Returned == [j \in 1..Len(selecionados) |-> PosOf(SelContent(selecionados[j]))]

ReturnedSet == {Returned[j] : j \in 1..Len(selecionados)}

\* C3: of two returned fragments with equal similarity the earlier input comes
\* first in the output, and an equal-scored later fragment is never returned
\* while the earlier one is left out.
C3_TieBreakEarlierFirst ==
    Retrieved =>
        /\ \A a, b \in 1..Len(Returned) :
              (a < b /\ ScoreEq(similarities[Returned[a]], similarities[Returned[b]]))
                  => Returned[a] < Returned[b]
        /\ \A i, j \in 1..Len(all_chunks) :
              (i < j /\ ScoreEq(similarities[i], similarities[j]) /\ j \in ReturnedSet)
                  => i \in ReturnedSet

\* C4: no fragment left out of the result scores strictly higher than a fragment
\* in the result.
C4_PrefixOfRanking ==
    Retrieved =>
        \A i \in (1..Len(all_chunks)) \ ReturnedSet, j \in ReturnedSet :
            ~ScoreLess(similarities[j], similarities[i])

\* C4 witness: some fragment was left out, and it scores strictly lower than a
\* returned one.
C4_Witness ==
    /\ Retrieved
    /\ \E i \in (1..Len(all_chunks)) \ ReturnedSet, j \in ReturnedSet :
          ScoreLess(similarities[i], similarities[j])

\* C8: along the returned sequence the scores never increase.
C8_ScoresNonIncreasing ==
    Retrieved =>
        \A a \in 1..(Len(Returned) - 1) :
            ScoreLE(similarities[Returned[a + 1]], similarities[Returned[a]])

\* C8 witness: at least three fragments returned, with a strict drop in score.
C8_Witness ==
    /\ Retrieved
    /\ Len(Returned) >= 3
    /\ ScoreLess(similarities[Returned[3]], similarities[Returned[1]])

\* C9: for a non-empty fragment set, a positive k and a query of the fragments'
\* dimensionality the step ends without error, returns at most min(k, n)
\* fragments, none twice; with k > n it returns all n of them, ranked.
C9_AtMostMinKN ==
    LET n == Len(all_chunks)
    IN  (/\ pc = "retrieved"
         /\ n >= 1
         /\ top_k >= 1
         /\ ShapesOk(query_embedding, embeddings_array.rows))
        => /\ rag_status = "ok"
           /\ Len(selecionados) <= Min(top_k, n)
           /\ Cardinality(ReturnedSet) = Len(selecionados)
           /\ top_k > n =>
                /\ ReturnedSet = 1..n
                /\ \A a \in 1..(n - 1) :
                      ScoreLE(similarities[Returned[a + 1]], similarities[Returned[a]])

\* C9 witness: k exceeds the number of fragments and all of them came back.
C9_Witness ==
    /\ Retrieved
    /\ Len(all_chunks) >= 2
    /\ top_k > Len(all_chunks)
    /\ Len(selecionados) = Len(all_chunks)

IsZero(v) == Dot(v, v) = 0

\* C10: whatever the (finite) content of the rows, of the query's dimensionality,
\* the step ends without error, and a row that is the zero vector gets the
\* well-defined score 0.
C10_ZeroVectorScoresZero ==
    (pc = "retrieved" /\ ShapesOk(query_embedding, embeddings_array.rows))
    => /\ rag_status = "ok"
       /\ Len(similarities) = Len(embeddings_array.rows)
       /\ \A j \in 1..Len(similarities) :
             IsZero(embeddings_array.rows[j].values)
                 => similarities[j].num = 0 /\ similarities[j].den > 0

\* C10 witness: a zero-vector row ranked together with a row of non-zero score.
C10_Witness ==
    /\ Retrieved
    /\ \E j \in 1..Len(similarities) :
          IsZero(embeddings_array.rows[j].values) /\ j \in ReturnedSet
    /\ \E j \in 1..Len(similarities) : similarities[j].num # 0

\* Row i of the embedding array is a zero vector / has some non-zero component.
ZeroRow(i) == IsZero(embeddings_array.rows[i].values)

\* C11: a fragment whose embedding is the zero vector ranks last: it is never
\* returned ahead of a fragment with a non-zero embedding, nor returned while
\* such a fragment is left out - fragments scoring exactly the same as it apart.
C11_ZeroVectorRanksLast ==
    Retrieved =>
        /\ \A a, b \in 1..Len(Returned) :
              (/\ a < b
               /\ ZeroRow(Returned[a])
               /\ ~ZeroRow(Returned[b]))
                  => ScoreEq(similarities[Returned[a]], similarities[Returned[b]])
        /\ \A i \in ReturnedSet, j \in (1..Len(all_chunks)) \ ReturnedSet :
              (ZeroRow(i) /\ ~ZeroRow(j)) => ScoreEq(similarities[i], similarities[j])

\* C12: invoked with an empty fragment/embedding set, or with a k that is not
\* positive, the retrieval step ends in its error branch; it does not return
\* normally.
C12_InvalidInputFails ==
    (pc = "retrieved" /\ (Len(embeddings_array.rows) = 0 \/ top_k <= 0))
        => rag_status = "erro"

RowValues == [j \in 1..Len(embeddings_array.rows) |-> embeddings_array.rows[j].values]

\* The retrieval step was run on F1 = [1,0], F2 = [0,1], F3 = [1,1] with the
\* query [1,0] and k = 2.
ExampleRetrieved ==
    /\ pc = "retrieved"
    /\ RowValues = << <<1, 0>>, <<0, 1>>, <<1, 1>> >>
    /\ query_embedding = <<1, 0>>
    /\ top_k = 2

\* C16: on that input the step returns exactly F1 then F3 and not F2, F1 scoring
\* 1, F2 scoring 0 and F3 strictly between the two.
C16_ExampleF1ThenF3 ==
    ExampleRetrieved =>
        /\ rag_status = "ok"
        /\ Returned = <<1, 3>>
        /\ similarities[1].num = similarities[1].den
        /\ similarities[2].num = 0
        /\ ScoreLess(similarities[2], similarities[3])
        /\ ScoreLess(similarities[3], similarities[1])

\* C16 witness: the example was run and two fragments came back.
C16_Witness == ExampleRetrieved /\ Len(selecionados) = 2


----------------------------------------------------------------------------
(* Properties of the order of the stages in main *)

StagesRun == {estagios[j] : j \in 1..Len(estagios)}

OrdemEstagios == <<"pdfs", "embeddings", "rag", "geracao", "documento">>

\* The stage that was started last in this request ("nenhum" before the first).
UltimoEstagio == IF estagios = <<>> THEN "nenhum" ELSE estagios[Len(estagios)]

\* C17: the stages started in a request are, in order, a beginning of chunk,
\* embed, retrieve, generate, render - so none is started twice - and wherever
\* main stands, the stage before the one it is in or about to call is the one
\* started last: a stage starts only after the one before it has returned, and
\* there is one position of main, never two stages in progress.
C17_StagesInOrder ==
    /\ Len(estagios) <= Len(OrdemEstagios)
    /\ estagios = SubSeq(OrdemEstagios, 1, Len(estagios))
    /\ pc \in {"idle", "pdfs"} => UltimoEstagio = "nenhum"
    /\ pc = "embed" => UltimoEstagio \in {"pdfs", "embeddings"}
    /\ pc = "rag" => UltimoEstagio = "embeddings"
    /\ pc = "gerar" => UltimoEstagio = "rag"
    /\ pc = "doc" => UltimoEstagio = "geracao"
    /\ pc = "download" => UltimoEstagio = "documento"

\* C17 witness: a request that went through all five stages.
C17_Witness == pc = "fim" /\ estagios = OrdemEstagios

\* The request passed the empty-description check and init_vertexai().
PassedInit == inicio \in {"executou", "memoizado"} /\ vertex_cache = "True"

----------------------------------------------------------------------------
(* Properties of error handling in main *)

\* The text is empty or made of whitespace only.
Blank(s) == \A j \in 1..Len(s) : s[j] \in Whitespace

\* No stage has been called in this request and none of their results exists.
NoStageRun ==
    /\ estagios = <<>>
    /\ all_chunks = <<>>
    /\ embeddings_array = NoneArray
    /\ query_embedding = <<>>
    /\ dados_apr = "None"
    /\ documento = "None"

\* C19: a request whose task description is empty or whitespace only is
\* rejected with the error message and ends there, no stage having been called;
\* and the step that takes the description leaves the service initialization
\* untouched: init_vertexai is not called, its cache entry stays as it was.
C19_BlankTaskRejected ==
    /\ [](pc # "idle" /\ Blank(tarefa) => inicio = "rejeitada" /\ pc = "fim" /\ NoStageRun)
    /\ [][(pc = "idle" /\ Blank(tarefa')) =>
            (vertex_cache' = vertex_cache /\ inicio' = "rejeitada" /\ pc' = "fim")]_vars

\* C19 witness: a whitespace-only description was rejected in a first request,
\* the service initialization never having been run.
C19_Witness ==
    /\ tarefa = <<" ", "\n">>
    /\ inicio = "rejeitada"
    /\ pc = "fim"
    /\ vertex_cache = "vazio"

\* executar_rag was given a query embedding whose dimensionality differs from
\* that of a row of the embedding array.
DimMismatch ==
    /\ "rag" \in StagesRun
    /\ query_embedding # <<>>
    /\ \E j \in 1..Len(embeddings_array.rows) :
          Len(embeddings_array.rows[j].values) # Len(query_embedding)

\* C5: after a dimensionality mismatch in the retrieval step the error reaches
\* main, which has no retrieval result to go on with: the generation is not run
\* in that request.
C5_MismatchStopsRequest ==
    DimMismatch => ~("geracao" \in StagesRun)

\* C6: a stage in which some step failed is the last stage of the request, and
\* the request produces no document and offers no download.
C6_FailureAbortsPipeline ==
    falhas # {} =>
        /\ \A j \in 1..Len(estagios) : estagios[j] \in falhas => j = Len(estagios)
        /\ documento = "None"
        /\ ~download

\* The four results main checks, as they stand in this request.
ChecksPassed ==
    /\ all_chunks # <<>>
    /\ embeddings_array.kind = "array"
    /\ Len(embeddings_array.rows) > 0
    /\ dados_apr # "None"
    /\ documento # "None"

\* C20: the download is offered only in a request in which processar_pdfs
\* returned a fragment, gerar_embeddings a non-empty array, the generation a
\* record and the rendering a document; while one of them is missing no
\* download is offered and the generated data are not displayed, and a stage
\* that returned nothing is where main returned.
C20_DownloadOnlyAfterChecks ==
    /\ download => ChecksPassed
    /\ ~ChecksPassed => (~download /\ ~exibiu_dados)
    /\ ("pdfs" \in StagesRun /\ all_chunks = <<>>) => pc = "fim"
    /\ (EmbedReturned /\ Len(embeddings_array.rows) = 0) => pc = "fim"
    /\ ("geracao" \in StagesRun /\ dados_apr = "None") => pc = "fim"
    /\ ("documento" \in StagesRun /\ documento = "None") => pc = "fim"

\* C20 witness: a request passed the four checks and offered the download.
C20_Witness ==
    /\ pc = "fim"
    /\ ChecksPassed
    /\ download
    /\ exibiu_dados

----------------------------------------------------------------------------
(* Properties of the generation step *)

\* The generation step has returned a record.
RecordReturned == pc = "gerado" /\ dados_apr = "dados"

\* What the model wrote for each key: the members of the object that was read,
\* none when the object has no member.
ModelOutput ==
    IF \E i \in 1..Len(json_str) : json_str[i] = "m" THEN membros ELSE NoMembros

\* The model supplied a non-empty value for the key.
Supplied(c) == ModelOutput[c].tem /\ ModelOutput[c].v # <<>>

\* The default app.py has for each key.
PadraoApp(c) ==
    CASE c = "epis_obrigatorios" -> EpisPadraoApp
      [] c = "procedimentos_emergencia" -> ProcedimentosPadrao
      [] c = "data_elaboracao" -> DataPadrao
      [] c = "titulo_apr" -> TituloPadrao(tarefa)

\* C21: a record returned by gerar_apr_com_ia (app.py) has a non-empty value for
\* each of the four keys: the value the model supplied where it supplied a
\* non-empty one, the default of the key where it left the key out or empty.
C21_CamposGarantidos ==
    (RecordReturned /\ impl = "app") =>
        \A c \in Campos :
            /\ dados_da_apr[c].tem
            /\ dados_da_apr[c].v # <<>>
            /\ Supplied(c) => dados_da_apr[c] = ModelOutput[c]
            /\ ~Supplied(c) => dados_da_apr[c] = PadraoApp(c)

\* C21 witness: a record in which one key kept the model's value, one that the
\* model left out got its default, and one that the model left empty got its.
C21_Witness ==
    /\ RecordReturned
    /\ impl = "app"
    /\ \E c \in Campos : Supplied(c)
    /\ \E c \in Campos : ~ModelOutput[c].tem
    /\ \E c \in Campos : ModelOutput[c].tem /\ ModelOutput[c].v = <<>>

\* The response text has no opening brace, has no closing brace, or has its
\* last closing brace before its first opening brace.
SemAbre == \A i \in 1..Len(resposta) : resposta[i] # "{"

SemFecha == \A j \in 1..Len(resposta) : resposta[j] # "}"

FechaAntesDeAbrir ==
    \A i, j \in 1..Len(resposta) : (resposta[i] = "{" /\ resposta[j] = "}") => j < i

\* text is the part of the response from its first "{" to its last "}".
IsBraceSpan(text) ==
    \E i, j \in 1..Len(resposta) :
        /\ i < j
        /\ resposta[i] = "{"
        /\ \A a \in 1..(i - 1) : resposta[a] # "{"
        /\ resposta[j] = "}"
        /\ \A b \in (j + 1)..Len(resposta) : resposta[b] # "}"
        /\ text = SubSeq(resposta, i, j)

\* C22: the step returns None, and no record, part of one included, when the
\* response text has no "{", no "}", or its last "}" before its first "{";
\* for any other response the text handed to json.loads is exactly the part from
\* the first "{" to the last "}", both included.
C22_ExtractsBraceSpan ==
    pc = "gerado" =>
        IF SemAbre \/ SemFecha \/ FechaAntesDeAbrir
        THEN dados_apr = "None" /\ dados_da_apr = NoMembros
        ELSE IsBraceSpan(json_str)

\* C22 witness: a response with both braces, the closing one first, for which
\* pipeline.py - which has no test of its own - returned None.
C22_Witness ==
    /\ pc = "gerado"
    /\ impl = "pipeline"
    /\ ~SemAbre
    /\ ~SemFecha
    /\ FechaAntesDeAbrir
    /\ dados_apr = "None"

\* The letters a and b are the same but for their case.
SameLetter(a, b) ==
    \/ a = b
    \/ \E k \in 1..Len(Maiusculas) : {a, b} = {Maiusculas[k], Minusculas[k]}

\* The task description contains the word, whatever the case of its letters.
Mentions(word) ==
    \E i \in 0..(Len(tarefa) - Len(word)) :
        \A k \in 1..Len(word) : SameLetter(tarefa[i + k], word[k])

\* The items of epis_obrigatorios in the returned record.
EpisReturned ==
    {dados_da_apr["epis_obrigatorios"].v[j] :
        j \in 1..Len(dados_da_apr["epis_obrigatorios"].v)}

\* The items of the list the model supplied for epis_obrigatorios.
EpisSupplied ==
    IF ModelOutput["epis_obrigatorios"].tipo = "list"
    THEN {ModelOutput["epis_obrigatorios"].v[j] :
            j \in 1..Len(ModelOutput["epis_obrigatorios"].v)}
    ELSE {}

\* C23: in a record returned by gerar_apr_ia (pipeline.py), epis_obrigatorios
\* has the fall-arrest harness when the description mentions altura or andaime
\* in any case of letters, has the gas detector, the filter mask and the safety
\* belt when it mentions confinado, and has every EPI the model supplied.
C23_EpisDaAtividade ==
    (RecordReturned /\ impl = "pipeline") =>
        /\ (Mentions(W_altura) \/ Mentions(W_andaime)) =>
              \A j \in 1..Len(EpiAltura) : EpiAltura[j] \in EpisReturned
        /\ Mentions(W_confinado) =>
              \A j \in 1..Len(EpisConfinado) : EpisConfinado[j] \in EpisReturned
        /\ (Mentions(W_altura) \/ Mentions(W_andaime) \/ Mentions(W_confinado)) =>
              EpisSupplied \subseteq EpisReturned

\* C23 witness: a description in capitals mentioning andaime, the model having
\* supplied EPIs of its own, with a record returned.
C23_Witness ==
    /\ RecordReturned
    /\ impl = "pipeline"
    /\ tarefa = T_ANDAIME
    /\ EpisSupplied # {}

====
